---- MODULE Spec2Model ----
(***************************************************************************)
(* outlived.go: import of a CSV of deceased musicians into a Redis sorted  *)
(* set keyed by the age at death in days, and the range query that prints  *)
(* the records around the caller's own age with a ">>> YOU ARE HERE"       *)
(* marker line.                                                            *)
(*                                                                         *)
(* Text is modelled as a sequence of tokens, so that Person.String and     *)
(* strings.Split are real conversions:                                     *)
(*   <<"date", n>>   the ten characters of a valid calendar date           *)
(*                   YYYY-MM-DD, n being its day number                    *)
(*   <<"nodate", 0>> ten characters that match [0-9]{4}-[0-9]{2}-[0-9]{2}  *)
(*                   but are no calendar date (2016-13-45)                 *)
(*   <<"junk", 0>>   text that does not match the date pattern             *)
(*   <<"chr", n>>    an ordinary character of a name                       *)
(*   <<"comma", 0>>  the character ','                                     *)
(***************************************************************************)
EXTENDS Integers, Sequences, FiniteSets, TLC

VARIABLES
    store,      \* the sorted set DB_NAME in Redis: a set of [score, member]
    file,       \* the CSV file named by -import
    prior,      \* history: the sorted set when the running import started
    impPc,      \* position of the import process
    records,    \* doFileImport: records
    impI,       \* storeRecordsInRedis: index of the next record of the loop
    sent,       \* commands written with c.Send, not yet executed
    impConn,    \* the import's connection: "none", "open", "closed"
    runs,       \* number of times the import was started
    qDate,      \* the -query flag
    dFlag,      \* the -d flag
    qPc,        \* position of the query process
    userAge,    \* doQuery: userAge
    ndays,      \* doQuery: ndays
    results,    \* doQuery: results
    qI,         \* doQuery: index of the next row of the loop
    lastAge,    \* doQuery: lastAge
    out,        \* the lines doQuery printed on stdout
    qConn,      \* the query's connection: "none", "open", "closed"
    observed,   \* history: the sorted set as ZRANGEBYSCORE found it, and
                \* the position of the import process at that moment
    fmtDays,    \* the argument of formatAgeInYearsAndDays under SpecFmt
    fmtOut      \* the lines printed for fmtDays under SpecFmt

vars == <<store, file, prior, impPc, records, impI, sent, impConn, runs,
          qDate, dFlag, qPc, userAge, ndays, results, qI, lastAge, out,
          qConn, observed, fmtDays, fmtOut>>

impVars == <<file, prior, impPc, records, impI, sent, impConn, runs>>
qVars   == <<qDate, dFlag, qPc, userAge, ndays, results, qI, lastAge, out,
             qConn, observed>>
fmtVars == <<fmtDays, fmtOut>>

(***************************************************************************)
(* Bounds of the model.                                                    *)
(***************************************************************************)
MaxDay == 2
MaxBirth == 1
MaxStore == 3
MaxWindow == 1
Today == 1
ImpMaxBirth == 0
ImpMaxDay == 1
MaxRows == 2
MaxPrior == 1
MaxRuns == 2
MaxFmtDays == 740

(***************************************************************************)
(* Text.                                                                   *)
(***************************************************************************)
Comma == <<"comma", 0>>
Chr(n) == <<"chr", n>>
DateText(n) == << <<"date", n>> >>
NoDateText == << <<"nodate", 0>> >>
JunkText == << <<"junk", 0>> >>

\* "%s,%s,%s" of the three fields
PersonString(rec) ==
    rec.Name \o <<Comma>> \o rec.BirthDate \o <<Comma>> \o rec.DeathDate

\* strings.Split(row, ","): the fields between the commas, in order
RECURSIVE SplitFrom(_, _, _)
SplitFrom(s, i, cur) ==
    IF i > Len(s) THEN <<cur>>
    ELSE IF s[i] = Comma THEN <<cur>> \o SplitFrom(s, i + 1, <<>>)
    ELSE SplitFrom(s, i + 1, Append(cur, s[i]))

Split(s) == SplitFrom(s, 1, <<>>)

\* dateFmtRegex.MatchString: the pattern is not anchored
RegexMatch(s) == \E i \in 1..Len(s) : s[i][1] \in {"date", "nodate"}

\* time.Parse(DATE_FMT, s) returns no error
ParseOK(s) == Len(s) = 1 /\ s[1][1] = "date"

DayOf(s) == s[1][2]

\* time.Duration is an int64 of nanoseconds: Sub saturates at +-2^63 ns,
\* which int(Hours() / 24) turns into +-106751 days
MaxDurationDays == 106751

Saturate(n) ==
    IF n > MaxDurationDays THEN MaxDurationDays
    ELSE IF n < -MaxDurationDays THEN -MaxDurationDays
    ELSE n

\* getAgeInDays exits the process when either date does not parse
AgeParses(d1, d2) == ParseOK(d1) /\ ParseOK(d2)

getAgeInDays(d1, d2) == Saturate(DayOf(d2) - DayOf(d1))

(***************************************************************************)
(* formatAgeInYearsAndDays. 365.25 is the exact binary fraction 1461/4, so *)
(* the float64 quotient and math.Mod are computed here on the numerators;  *)
(* int() truncates toward zero and math.Mod keeps the dividend's sign.     *)
(***************************************************************************)
DaysInYearNum == 1461
DaysInYearDen == 4

TruncDiv(a, b) == IF a >= 0 THEN a \div b ELSE -((-a) \div b)
TruncMod(a, b) == a - b * TruncDiv(a, b)

\* variant: a year of 365 days
formatAgeInYearsAndDays_Calendar(days) ==
    [years |-> TruncDiv(days, 365), days |-> TruncMod(days, 365)]

formatAgeInYearsAndDays(days) ==
    [years |-> TruncDiv(DaysInYearDen * days, DaysInYearNum),
     days  |-> TruncDiv(TruncMod(DaysInYearDen * days, DaysInYearNum),
                        DaysInYearDen)]

\* fmt.Printf("%-30s (died aged %s)\n", name, formatAgeInYearsAndDays(age));
\* arg records the integer the line was formatted from
RecordLine(name, age) ==
    [kind |-> "died aged", label |-> name, arg |-> age,
     text |-> formatAgeInYearsAndDays(age)]

\* s := ">>> YOU ARE HERE"
MarkerLabel == <<Chr(0)>>

printUserAge(age) ==
    [kind |-> "aged", label |-> MarkerLabel, arg |-> age,
     text |-> formatAgeInYearsAndDays(age)]

(***************************************************************************)
(* The Redis sorted set. A member occurs once; ZADD of a member that is    *)
(* already there replaces its score.                                       *)
(***************************************************************************)
Multi == [op |-> "MULTI", score |-> 0, member |-> <<>>]
Del == [op |-> "DEL", score |-> 0, member |-> <<>>]
ZAdd(score, member) == [op |-> "ZADD", score |-> score, member |-> member]

\* variant: DEL leaves the sorted set as it is
Apply_NoDel(s, cmd) ==
    IF cmd.op = "ZADD"
    THEN {e \in s : e.member # cmd.member}
            \cup {[score |-> cmd.score, member |-> cmd.member]}
    ELSE s

Apply(s, cmd) ==
    IF cmd.op = "DEL" THEN {}
    ELSE IF cmd.op = "ZADD"
    THEN {e \in s : e.member # cmd.member}
            \cup {[score |-> cmd.score, member |-> cmd.member]}
    ELSE s

RECURSIVE ApplyAll(_, _)
ApplyAll(s, cmds) ==
    IF cmds = <<>> THEN s ELSE ApplyAll(Apply(s, Head(cmds)), Tail(cmds))

\* EXEC: the server runs the commands queued since MULTI as one step
ServerExec(s, cmds) == ApplyAll(s, cmds)

\* ZRANGEBYSCORE DB_NAME lo hi: the entries with lo <= score <= hi
RangeByScore(s, lo, hi) == {e \in s : lo <= e.score /\ e.score <= hi}

\* the members of a range in ascending score order; entries of equal score
\* in any order
RECURSIVE Ascending(_)
Ascending(s) ==
    IF s = {} THEN {<<>>}
    ELSE UNION { {<<e.member>> \o t : t \in Ascending(s \ {e})} :
                 e \in {x \in s : \A y \in s : x.score <= y.score} }

(***************************************************************************)
(* Import: doFileImport, readCSVFileContents, storeRecordsInRedis.         *)
(***************************************************************************)
\* readCSVFileContents exits on os.Open and on reader.ReadAll errors
ReadFails(f) == f.kind \in {"missing", "malformed"}

readCSVFileContents(f) == f.rows

\* doFileImport up to the call of storeRecordsInRedis
ImpStart ==
    /\ impPc = "idle"
    /\ runs' = runs + 1
    /\ prior' = store
    /\ IF ReadFails(file)
       THEN /\ impPc' = "fatal"
            /\ UNCHANGED records
       ELSE /\ impPc' = "dial"
            /\ records' = readCSVFileContents(file)
    /\ impI' = 1
    /\ sent' = <<>>
    /\ impConn' = "none"
    /\ UNCHANGED <<store, file>>
    /\ UNCHANGED qVars
    /\ UNCHANGED fmtVars

\* redis.Dial; log.Fatal when it fails; defer c.Close()
ImpDial ==
    /\ impPc = "dial"
    /\ \/ /\ impConn' = "open"
          /\ impPc' = "multi"
       \/ /\ impConn' = "none"
          /\ impPc' = "fatal"
    /\ UNCHANGED <<store, file, prior, records, impI, sent, runs>>
    /\ UNCHANGED qVars
    /\ UNCHANGED fmtVars

\* c.Send("MULTI")
ImpSendMulti ==
    /\ impPc = "multi"
    /\ sent' = Append(sent, Multi)
    /\ impPc' = "del"
    /\ UNCHANGED <<store, file, prior, records, impI, impConn, runs>>
    /\ UNCHANGED qVars
    /\ UNCHANGED fmtVars

\* variant: DEL run by the server at once, outside the transaction
ImpSendDel_Immediate ==
    /\ impPc = "del"
    /\ store' = {}
    /\ impPc' = "zadd"
    /\ UNCHANGED <<file, prior, records, impI, sent, impConn, runs>>
    /\ UNCHANGED qVars
    /\ UNCHANGED fmtVars

\* c.Send("DEL", DB_NAME)
ImpSendDel ==
    /\ impPc = "del"
    /\ sent' = Append(sent, Del)
    /\ impPc' = "zadd"
    /\ UNCHANGED <<store, file, prior, records, impI, impConn, runs>>
    /\ UNCHANGED qVars
    /\ UNCHANGED fmtVars

\* one pass of the loop over records: getAgeInDays exits the process on a
\* date that does not parse (os.Exit runs no deferred call, and the server
\* discards the commands queued on a connection that goes away)
ImpSendZAdd ==
    /\ impPc = "zadd"
    /\ impI <= Len(records)
    /\ LET eachRec == records[impI] IN
       IF AgeParses(eachRec.BirthDate, eachRec.DeathDate)
       THEN /\ sent' = Append(sent,
                    ZAdd(getAgeInDays(eachRec.BirthDate, eachRec.DeathDate),
                         PersonString(eachRec)))
            /\ impI' = impI + 1
            /\ impPc' = "zadd"
       ELSE /\ sent' = <<>>
            /\ impI' = impI
            /\ impPc' = "fatal"
    /\ UNCHANGED <<store, file, prior, records, impConn, runs>>
    /\ UNCHANGED qVars
    /\ UNCHANGED fmtVars

\* c.Do("EXEC") after the loop. Do returns an error when the commands could
\* not be written (the server runs nothing) and when the reply could not be
\* read (the server has run the transaction); either way log.Fatal exits.
ImpExec ==
    /\ impPc = "zadd"
    /\ impI > Len(records)
    /\ \/ /\ store' = ServerExec(store, sent)
          /\ impPc' = "close"
       \/ /\ store' = store
          /\ impPc' = "fatal"
       \/ /\ store' = ServerExec(store, sent)
          /\ impPc' = "fatal"
    /\ sent' = <<>>
    /\ UNCHANGED <<file, prior, records, impI, impConn, runs>>
    /\ UNCHANGED qVars
    /\ UNCHANGED fmtVars

\* the deferred c.Close() on return, then "Successfully completed import"
ImpClose ==
    /\ impPc = "close"
    /\ impConn' = "closed"
    /\ impPc' = "done"
    /\ UNCHANGED <<store, file, prior, records, impI, sent, runs>>
    /\ UNCHANGED qVars
    /\ UNCHANGED fmtVars

\* the program is run again with the same -import argument
ImpRerun ==
    /\ impPc = "done"
    /\ runs < MaxRuns
    /\ impPc' = "idle"
    /\ UNCHANGED <<store, file, prior, records, impI, sent, impConn, runs>>
    /\ UNCHANGED qVars
    /\ UNCHANGED fmtVars

(***************************************************************************)
(* Query: main's dispatch and doQuery.                                     *)
(***************************************************************************)
\* the default of -d, and main's fallback for a negative -d
DefaultDayRange == 365

\* userAge >= lastAge && userAge < age
\* variants: <= on the upper side; no test on the lower side
MarkerDue_Inclusive(user, last, age) == user >= last /\ user <= age

MarkerDue_NoLower(user, last, age) == user < age

MarkerDue(user, last, age) == user >= last /\ user < age

\* userAge >= lastAge, after the loop
TailDue(user, last) == user >= last

\* main's choice of ndays, the date pattern check, now, userAge
QStart ==
    /\ qPc = "idle"
    /\ ndays' = IF dFlag >= 0 THEN dFlag ELSE DefaultDayRange
    /\ IF RegexMatch(qDate) /\ AgeParses(qDate, DateText(Today))
       THEN /\ userAge' = getAgeInDays(qDate, DateText(Today))
            /\ qPc' = "dial"
       ELSE /\ userAge' = userAge
            /\ qPc' = "fatal"
    /\ UNCHANGED <<qDate, dFlag, results, qI, lastAge, out, qConn, observed>>
    /\ UNCHANGED store
    /\ UNCHANGED impVars
    /\ UNCHANGED fmtVars

\* redis.Dial; log.Fatal when it fails; defer c.Close()
QDial ==
    /\ qPc = "dial"
    /\ \/ /\ qConn' = "open"
          /\ qPc' = "fetch"
       \/ /\ qConn' = "none"
          /\ qPc' = "fatal"
    /\ UNCHANGED <<qDate, dFlag, userAge, ndays, results, qI, lastAge, out,
                   observed>>
    /\ UNCHANGED store
    /\ UNCHANGED impVars
    /\ UNCHANGED fmtVars

\* variant: a range that excludes its two bounds
QFetch_Exclusive ==
    /\ qPc = "fetch"
    /\ \E r \in Ascending({e \in store : userAge - ndays < e.score
                                          /\ e.score < userAge + ndays}) :
            results' = r
    /\ observed' = [set |-> store, at |-> impPc]
    /\ qI' = 1
    /\ lastAge' = 0
    /\ qPc' = "scan"
    /\ UNCHANGED <<qDate, dFlag, userAge, ndays, out, qConn>>
    /\ UNCHANGED store
    /\ UNCHANGED impVars
    /\ UNCHANGED fmtVars

\* redis.Strings(c.Do("ZRANGEBYSCORE", DB_NAME, userAge-ndays, userAge+ndays)),
\* log.Fatal on an error, then lastAge := 0
QFetch ==
    /\ qPc = "fetch"
    /\ \/ /\ \E r \in Ascending(RangeByScore(store, userAge - ndays,
                                                userAge + ndays)) :
                  results' = r
          /\ observed' = [set |-> store, at |-> impPc]
          /\ qI' = 1
          /\ lastAge' = 0
          /\ qPc' = "scan"
       \/ /\ qPc' = "fatal"
          /\ UNCHANGED <<results, observed, qI, lastAge>>
    /\ UNCHANGED <<qDate, dFlag, userAge, ndays, out, qConn>>
    /\ UNCHANGED store
    /\ UNCHANGED impVars
    /\ UNCHANGED fmtVars

\* one pass of the loop over results. A row with fewer than three fields
\* panics on fields[2] (the deferred Close runs); a date that does not parse
\* exits in getAgeInDays (it does not).
QRow ==
    /\ qPc = "scan"
    /\ qI <= Len(results)
    /\ LET fields == Split(results[qI]) IN
       IF Len(fields) < 3
       THEN /\ qPc' = "panic"
            /\ qConn' = "closed"
            /\ UNCHANGED <<qI, lastAge, out>>
       ELSE LET name == fields[1]
                bday == fields[2]
                dday == fields[3]
            IN  IF AgeParses(bday, dday)
                THEN LET age == getAgeInDays(bday, dday) IN
                     /\ out' = out
                            \o (IF MarkerDue(userAge, lastAge, age)
                                THEN <<printUserAge(userAge)>> ELSE <<>>)
                            \o <<RecordLine(name, age)>>
                     /\ lastAge' = age
                     /\ qI' = qI + 1
                     /\ qPc' = "scan"
                     /\ UNCHANGED qConn
                ELSE /\ qPc' = "fatal"
                     /\ UNCHANGED <<qI, lastAge, out, qConn>>
    /\ UNCHANGED <<qDate, dFlag, userAge, ndays, results, observed>>
    /\ UNCHANGED store
    /\ UNCHANGED impVars
    /\ UNCHANGED fmtVars

\* after the loop: the case where the user is older than everyone in the
\* return set
QTail ==
    /\ qPc = "scan"
    /\ qI > Len(results)
    /\ out' = out \o (IF TailDue(userAge, lastAge)
                       THEN <<printUserAge(userAge)>> ELSE <<>>)
    /\ qPc' = "close"
    /\ UNCHANGED <<qDate, dFlag, userAge, ndays, results, qI, lastAge, qConn,
                   observed>>
    /\ UNCHANGED store
    /\ UNCHANGED impVars
    /\ UNCHANGED fmtVars

\* the deferred c.Close() on return
QClose ==
    /\ qPc = "close"
    /\ qConn' = "closed"
    /\ qPc' = "done"
    /\ UNCHANGED <<qDate, dFlag, userAge, ndays, results, qI, lastAge, out,
                   observed>>
    /\ UNCHANGED store
    /\ UNCHANGED impVars
    /\ UNCHANGED fmtVars

(***************************************************************************)
(* The age formatting on its own: one record line and one marker line are  *)
(* printed for fmtDays.                                                    *)
(***************************************************************************)
FmtPrint ==
    /\ fmtOut = <<>>
    /\ fmtOut' = <<RecordLine(<<Chr(1)>>, fmtDays), printUserAge(fmtDays)>>
    /\ UNCHANGED fmtDays
    /\ UNCHANGED store
    /\ UNCHANGED impVars
    /\ UNCHANGED qVars

(***************************************************************************)
(* Inputs and initial states.                                              *)
(***************************************************************************)
PlainName == <<Chr(1)>>
\* a name with commas in it, as a quoted CSV field can hold
CommaName == <<Chr(1), Comma, <<"date", 0>>, Comma, <<"date", 1>> >>

DateTexts(lo, hi) == {DateText(n) : n \in lo..hi}

Persons(names, births, deaths) ==
    [Name : names, BirthDate : births, DeathDate : deaths]

SeqsUpTo(S, n) == UNION {[1..k -> S] : k \in 0..n}
SubsetsUpTo(S, n) == {T \in SUBSET S : Cardinality(T) <= n}

RECURSIVE SetToSeq(_)
SetToSeq(S) ==
    IF S = {} THEN <<>>
    ELSE LET x == CHOOSE y \in S : TRUE IN <<x>> \o SetToSeq(S \ {x})

\* everything storeRecordsInRedis sends for recs, all of whose dates parse
Transaction(recs) ==
    <<Multi, Del>> \o
    [i \in 1..Len(recs) |->
        ZAdd(getAgeInDays(recs[i].BirthDate, recs[i].DeathDate),
             PersonString(recs[i]))]

\* the sorted set an earlier import of the records P left
Imported(P) == ServerExec({}, Transaction(SetToSeq(P)))

RowsFile(rows) == [kind |-> "rows", rows |-> rows]
MissingFile == [kind |-> "missing", rows |-> <<>>]
MalformedFile == [kind |-> "malformed", rows |-> <<>>]

ImpIdle ==
    /\ impPc = "idle"
    /\ prior = store
    /\ records = <<>>
    /\ impI = 1
    /\ sent = <<>>
    /\ impConn = "none"
    /\ runs = 0

QIdle ==
    /\ qPc = "idle"
    /\ userAge = 0
    /\ ndays = 0
    /\ results = <<>>
    /\ qI = 1
    /\ lastAge = 0
    /\ out = <<>>
    /\ qConn = "none"
    /\ observed = [set |-> {}, at |-> "idle"]

FmtIdle ==
    /\ fmtDays = 0
    /\ fmtOut = <<>>

QueryDates == DateTexts(0, Today + 1) \cup {NoDateText, JunkText}
DayFlags == (-1)..MaxWindow

\* the query alone, over a sorted set an earlier import left
InitQuery ==
    /\ store \in {Imported(P) :
            P \in SubsetsUpTo(Persons({PlainName}, DateTexts(0, MaxBirth),
                                      DateTexts(0, MaxDay)), MaxStore)}
    /\ file = RowsFile(<<>>)
    /\ ImpIdle
    /\ qDate \in QueryDates
    /\ dFlag \in DayFlags
    /\ QIdle
    /\ FmtIdle

NextQuery == QStart \/ QDial \/ QFetch \/ QRow \/ QTail \/ QClose

SpecQuery == InitQuery /\ [][NextQuery]_vars

(***************************************************************************)
(* What doQuery printed, read back from out.                               *)
(***************************************************************************)
MarkerPositions == {p \in 1..Len(out) : out[p].kind = "aged"}
RecordPositions == {p \in 1..Len(out) : out[p].kind = "died aged"}

\* the position in out of the line of the k-th row scanned
RecPos(k) ==
    CHOOSE p \in RecordPositions :
        Cardinality({q \in RecordPositions : q <= p}) = k

\* the age doQuery computes for the k-th row, and the lastAge it is
\* compared with
RowAge(k) ==
    LET fields == Split(results[k]) IN getAgeInDays(fields[2], fields[3])
PrevAge(k) == IF k = 1 THEN 0 ELSE RowAge(k - 1)

RowsParse ==
    \A k \in 1..Len(results) :
        LET fields == Split(results[k]) IN AgeParses(fields[2], fields[3])

AgesAscending ==
    /\ RowsParse
    /\ \A j, k \in 1..Len(results) : j < k => RowAge(j) <= RowAge(k)

Scanned == IF qPc \in {"close", "done"} THEN Len(results) ELSE qI - 1

(***************************************************************************)
(* C1: every query that runs to its end prints the marker line exactly     *)
(* once, whatever the reference score, the window and the (ascending)      *)
(* rows returned, an empty result and a reference date in the future       *)
(* included.                                                               *)
(***************************************************************************)
C1_MarkerExactlyOnce ==
    (qPc = "done" /\ AgesAscending) => Cardinality(MarkerPositions) = 1

(***************************************************************************)
(* C2: with the rows in ascending order, a row whose age exceeds the       *)
(* reference score while the previous row's age (0 before the first row)   *)
(* is <= the reference score has the marker line directly before its own   *)
(* line; every record line before a marker has age <= the reference score  *)
(* and every record line after it has age > the reference score.           *)
(***************************************************************************)
C2_MarkerBeforeFirstGreater ==
    (qPc \in {"scan", "close", "done"} /\ AgesAscending) =>
        /\ \A k \in 1..Scanned :
              (RowAge(k) > userAge /\ PrevAge(k) <= userAge) =>
                  /\ RecPos(k) > 1
                  /\ out[RecPos(k) - 1].kind = "aged"
        /\ \A m \in MarkerPositions : \A p \in RecordPositions :
              /\ p < m => out[p].arg <= userAge
              /\ p > m => out[p].arg > userAge

C2_Witness ==
    /\ qPc = "done"
    /\ Len(out) = 4
    /\ \E m \in MarkerPositions :
          /\ 1 < m /\ m < Len(out)
          /\ out[m - 1].arg < userAge
          /\ userAge < out[m + 1].arg

(***************************************************************************)
(* C3: when the reference score is >= the age of every returned row, the   *)
(* marker line is printed exactly once, as the last line, after all the    *)
(* record lines.                                                           *)
(***************************************************************************)
C3_MarkerOnceAtTail ==
    (/\ qPc = "done"
     /\ AgesAscending
     /\ \A k \in 1..Len(results) : RowAge(k) <= userAge) =>
        /\ Len(out) = Len(results) + 1
        /\ MarkerPositions = {Len(out)}

(***************************************************************************)
(* C4 as stated: when the reference score equals the age of a returned     *)
(* row, the marker line is printed before that row's line.                 *)
(***************************************************************************)
C4_MarkerBeforeTie ==
    (qPc = "done" /\ AgesAscending) =>
        \A k \in 1..Len(results) :
            RowAge(k) = userAge =>
                \E m \in MarkerPositions : m < RecPos(k)

(***************************************************************************)
(* C4 amended: when the reference score equals the age of a returned row,  *)
(* the marker line is printed once and after that row's line: directly     *)
(* after the last record line whose age equals the reference score.        *)
(***************************************************************************)
C4_MarkerAfterTie ==
    (qPc = "done" /\ AgesAscending) =>
        \A k \in 1..Len(results) :
            RowAge(k) = userAge =>
                \E m \in MarkerPositions :
                    /\ MarkerPositions = {m}
                    /\ m > RecPos(k)
                    /\ out[m - 1].kind = "died aged"
                    /\ out[m - 1].arg = userAge

C4_Witness ==
    /\ qPc = "done"
    /\ \E k \in 1..Len(results) :
          /\ RowAge(k) = userAge
          /\ k < Len(results)
          /\ RowAge(k + 1) > userAge
          /\ out[RecPos(k) + 1].kind = "aged"

(***************************************************************************)
(* The import alone, run up to MaxRuns times on the same file, over a      *)
(* sorted set an earlier import left.                                      *)
(***************************************************************************)
ImpValidDates(hi) == DateTexts(0, hi)
ImpAnyDates(hi) == DateTexts(0, hi) \cup {JunkText}

PriorStores ==
    {Imported(P) :
        P \in SubsetsUpTo(Persons({PlainName}, ImpValidDates(ImpMaxBirth),
                                  ImpValidDates(ImpMaxDay)), MaxPrior)}

ImportFiles ==
    {MissingFile, MalformedFile} \cup
    {RowsFile(r) :
        r \in SeqsUpTo(Persons({PlainName}, ImpAnyDates(ImpMaxBirth),
                               ImpAnyDates(ImpMaxDay)), MaxRows)}

InitImport ==
    /\ store \in PriorStores
    /\ file \in ImportFiles
    /\ ImpIdle
    /\ qDate = DateText(Today)
    /\ dFlag = -1
    /\ QIdle
    /\ FmtIdle

NextImportOnce ==
    \/ ImpStart
    \/ ImpDial
    \/ ImpSendMulti
    \/ ImpSendDel
    \/ ImpSendZAdd
    \/ ImpExec
    \/ ImpClose

NextImport == NextImportOnce \/ ImpRerun

SpecImport == InitImport /\ [][NextImport]_vars

\* the records of a file as a sorted set: one entry for each distinct row
AllParse(recs) ==
    \A i \in 1..Len(recs) : AgeParses(recs[i].BirthDate, recs[i].DeathDate)

DatasetOf(recs) ==
    {[score  |-> DayOf(recs[i].DeathDate) - DayOf(recs[i].BirthDate),
      member |-> recs[i].Name \o <<Comma>> \o recs[i].BirthDate
                    \o <<Comma>> \o recs[i].DeathDate] : i \in 1..Len(recs)}

(***************************************************************************)
(* C5 as stated: after the second of two imports of the same CSV the       *)
(* sorted set equals the one after the first import, holds one entry per   *)
(* CSV row, and nothing of the dataset that was there before.              *)
(***************************************************************************)
C5_OneEntryPerRow ==
    (impPc = "done" /\ runs >= 2) =>
        /\ store = prior
        /\ store = DatasetOf(records)
        /\ Cardinality(store) = Len(records)

(***************************************************************************)
(* C5 amended: after the second of two completed imports of the same CSV   *)
(* the sorted set equals the one after the first import and holds one      *)
(* entry per distinct CSV row (equal rows are one member of the sorted     *)
(* set) and nothing else.                                                  *)
(***************************************************************************)
C5_ImportIdempotent ==
    (impPc = "done" /\ runs >= 2) =>
        /\ store = prior
        /\ store = DatasetOf(records)
        /\ Cardinality(store) = Cardinality({records[i] : i \in 1..Len(records)})

C5_Witness ==
    /\ impPc = "done"
    /\ runs = 2
    /\ Len(records) = 2
    /\ records[1] = records[2]
    /\ Cardinality(store) = 1

(***************************************************************************)
(* C8 as stated: an import that ended in a fatal error leaves the sorted   *)
(* set either as it was before the import or empty.                        *)
(***************************************************************************)
C8_FailedImportPriorOrEmpty ==
    impPc = "fatal" => (store = prior \/ store = {})

(***************************************************************************)
(* C8 amended: an import that ended in a fatal error leaves the sorted set *)
(* either as it was before the import or, when EXEC reported the error     *)
(* after the server had run the transaction, as the complete new dataset;  *)
(* never some of the new records, never a mix of old and new.              *)
(***************************************************************************)
C8_FailedImportNeverPartial ==
    impPc = "fatal" =>
        \/ store = prior
        \/ /\ impI > Len(records)
           /\ AllParse(records)
           /\ store = DatasetOf(records)

C8_Witness ==
    /\ impPc = "fatal"
    /\ impConn = "open"
    /\ Len(records) = 2
    /\ impI = 2
    /\ prior # {}
    /\ store = prior

(***************************************************************************)
(* One import and one query as two processes on the same Redis server.     *)
(***************************************************************************)
\* no earlier import, or one that left a single record
SmallPriorStores ==
    {{}, Imported({[Name |-> PlainName, BirthDate |-> DateText(0),
                    DeathDate |-> DateText(1)]})}

InitConcurrent ==
    /\ store \in SmallPriorStores
    /\ file \in ImportFiles
    /\ ImpIdle
    /\ qDate = DateText(Today)
    /\ dFlag = -1
    /\ QIdle
    /\ FmtIdle

NextConcurrent == NextImportOnce \/ NextQuery

SpecConcurrent == InitConcurrent /\ [][NextConcurrent]_vars

Fetched == qPc \in {"scan", "close", "done"}

(***************************************************************************)
(* C6: the delete and the inserts of an import take effect as one step: a  *)
(* query whose range fetch interleaves with a running import finds either  *)
(* the complete previous dataset or the complete new dataset, and gets its *)
(* rows from that one.                                                     *)
(***************************************************************************)
C6_QuerySeesWholeDataset ==
    Fetched =>
        /\ \/ observed.set = prior
           \/ AllParse(records) /\ observed.set = DatasetOf(records)
        /\ {results[k] : k \in 1..Len(results)} =
              {e.member : e \in {x \in observed.set :
                                    /\ userAge - ndays <= x.score
                                    /\ x.score <= userAge + ndays}}

C6_Witness ==
    /\ Fetched
    /\ observed.at = "zadd"
    /\ observed.set = prior
    /\ prior # {}
    /\ Len(records) = 2
    /\ impPc = "done"
    /\ store = DatasetOf(records)
    /\ store # prior

(***************************************************************************)
(* C10: an operation that opened a connection has closed it by the time it *)
(* ends, whether it finished or aborted on a fatal error.                  *)
(***************************************************************************)
C10_ConnectionReleased ==
    /\ impPc \in {"done", "fatal"} => impConn # "open"
    /\ qPc \in {"done", "fatal", "panic"} => qConn # "open"

(***************************************************************************)
(* An import followed by a query (./outlived -import f -query d): the      *)
(* query starts when the import has returned.                              *)
(***************************************************************************)
RoundTripFiles ==
    {RowsFile(r) :
        r \in SeqsUpTo(Persons({PlainName, CommaName},
                               ImpValidDates(ImpMaxBirth),
                               ImpValidDates(ImpMaxDay)), MaxRows)}

InitRoundTrip ==
    /\ store \in SmallPriorStores
    /\ file \in RoundTripFiles
    /\ ImpIdle
    /\ qDate \in QueryDates
    /\ dFlag \in DayFlags
    /\ QIdle
    /\ FmtIdle

NextRoundTrip ==
    \/ NextImportOnce
    \/ impPc = "done" /\ QStart
    \/ impPc = "done" /\ QDial
    \/ impPc = "done" /\ QFetch
    \/ impPc = "done" /\ QRow
    \/ impPc = "done" /\ QTail
    \/ impPc = "done" /\ QClose

SpecRoundTrip == InitRoundTrip /\ [][NextRoundTrip]_vars

NoCommaInNames(recs) ==
    \A i \in 1..Len(recs) :
        \A j \in 1..Len(recs[i].Name) : recs[i].Name[j] # Comma

\* the record lines of out, in order
RECURSIVE RecordLines(_)
RecordLines(lines) ==
    IF lines = <<>> THEN <<>>
    ELSE IF Head(lines).kind = "died aged"
    THEN <<Head(lines)>> \o RecordLines(Tail(lines))
    ELSE RecordLines(Tail(lines))

PrintsStoredRange ==
    LET inRange == {e \in DatasetOf(records) :
                        /\ userAge - ndays <= e.score
                        /\ e.score <= userAge + ndays}
        lines == RecordLines(out)
    IN  /\ Len(lines) = Cardinality(inRange)
        /\ \A e \in inRange : \E k \in 1..Len(lines) :
              \E i \in 1..Len(records) :
                  /\ e.member = PersonString(records[i])
                  /\ lines[k].label = records[i].Name
                  /\ lines[k].arg = e.score
        /\ \A k \in 1..Len(lines) : \E e \in inRange :
              \E i \in 1..Len(records) :
                  /\ e.member = PersonString(records[i])
                  /\ lines[k].label = records[i].Name
                  /\ lines[k].arg = e.score
        /\ \A j, k \in 1..Len(lines) : j < k => lines[j].arg <= lines[k].arg

(***************************************************************************)
(* C7 as stated: after an import, a query that runs to its end prints a    *)
(* record line for exactly the imported records whose score lies in        *)
(* [userAge - ndays, userAge + ndays], in ascending score order, each with *)
(* the record's name and the day count it was stored under.                *)
(***************************************************************************)
C7_QueryPrintsStoredRange ==
    (impPc = "done" /\ qPc = "done") => PrintsStoredRange

(***************************************************************************)
(* C7 amended: the same, for imported records none of whose names holds a  *)
(* comma.                                                                  *)
(***************************************************************************)
C7_QueryPrintsStoredRangeNoComma ==
    (impPc = "done" /\ qPc = "done" /\ NoCommaInNames(records)) =>
        PrintsStoredRange

\* the record ("A", day 0, day 1) alone, a window that covers score 1
C7_Witness ==
    /\ impPc = "done"
    /\ qPc = "done"
    /\ records = <<[Name |-> PlainName, BirthDate |-> DateText(0),
                    DeathDate |-> DateText(1)]>>
    /\ userAge - ndays <= 1
    /\ 1 <= userAge + ndays
    /\ ndays <= MaxWindow
    /\ RecordLines(out) = <<RecordLine(PlainName, 1)>>

(***************************************************************************)
(* formatAgeInYearsAndDays over 0..MaxFmtDays.                             *)
(***************************************************************************)
InitFmt ==
    /\ store = {}
    /\ file = RowsFile(<<>>)
    /\ ImpIdle
    /\ qDate = DateText(Today)
    /\ dFlag = -1
    /\ QIdle
    /\ fmtDays \in 0..MaxFmtDays
    /\ fmtOut = <<>>

NextFmt == FmtPrint

SpecFmt == InitFmt /\ [][NextFmt]_vars

\* years = floor(days / 365.25), remainder = days mod 365.25 truncated,
\* stated on multiples of a quarter day
FloorYearsAndDays(t, days) ==
    /\ t.years * 1461 <= 4 * days
    /\ 4 * days < (t.years + 1) * 1461
    /\ t.days >= 0
    /\ 4 * t.days <= 4 * days - 1461 * t.years
    /\ 4 * days - 1461 * t.years < 4 * (t.days + 1)

(***************************************************************************)
(* C9 as stated: for days >= 0 the years are floor(days / 365.25) and the  *)
(* remainder is days mod 365.25 truncated; 0 days gives 0 years 0 days,    *)
(* 365 days 0 years 365 days, 731 days 1 years 365 days; record lines and  *)
(* the marker line are formatted alike.                                    *)
(***************************************************************************)
C9_FormatAsStated ==
    fmtOut # <<>> =>
        /\ FloorYearsAndDays(fmtOut[1].text, fmtDays)
        /\ fmtOut[2].text = fmtOut[1].text
        /\ fmtDays = 0 => fmtOut[1].text = [years |-> 0, days |-> 0]
        /\ fmtDays = 365 => fmtOut[1].text = [years |-> 0, days |-> 365]
        /\ fmtDays = 731 => fmtOut[1].text = [years |-> 1, days |-> 365]

(***************************************************************************)
(* C9 amended: the same, but 731 days gives 2 years 0 days (731 is more    *)
(* than 2 * 365.25 = 730.5).                                               *)
(***************************************************************************)
C9_FormatYearsAndDays ==
    fmtOut # <<>> =>
        /\ FloorYearsAndDays(fmtOut[1].text, fmtDays)
        /\ fmtOut[2].text = fmtOut[1].text
        /\ fmtDays = 0 => fmtOut[1].text = [years |-> 0, days |-> 0]
        /\ fmtDays = 365 => fmtOut[1].text = [years |-> 0, days |-> 365]
        /\ fmtDays = 731 => fmtOut[1].text = [years |-> 2, days |-> 0]

C9_Witness ==
    /\ fmtDays = 731
    /\ fmtOut # <<>>
    /\ fmtOut[1].kind = "died aged"
    /\ fmtOut[2].kind = "aged"
    /\ fmtOut[1].text = [years |-> 2, days |-> 0]

====
